---- MODULE Spec2Model ----
(***************************************************************************)
(* A model of wlanmeter.py: the quality rating, the channel/frequency      *)
(* conversions of the platform scanners, the throughput prober             *)
(* (SpeedTester), the measurement cycle and run loop (WLANMeter) and the   *)
(* summary.                                                                *)
(*                                                                         *)
(* Units.  Latencies are whole milliseconds, durations are microseconds    *)
(* (so that duration_sec * 1_000_000 is the integer dur_us), a raw speed   *)
(* is the exact fraction <<bits, dur_us>>, and every value that the code   *)
(* passes through round(x, 2) is stored in hundredths.                     *)
(* An Optional value is the empty tuple (None) or a one-element tuple.     *)
(***************************************************************************)
EXTENDS Integers, Sequences, FiniteSets, TLC

\* ------------------------------------------------------------------ bounds

\* The largest iteration count given to run, and the cap on the cycles of
\* an unbounded run.
MaxCount == 2

\* The largest number of read bursts (runs of 64 KiB chunk reads) of one
\* download before the stream must end.
MaxBursts == 1

\* The largest channel number fed to the channel/frequency conversions.
MaxChannel == 201

\* The weakest signal, in -dBm, fed to the rating.
MaxAttenuation == 110

\* The longest accumulated sequence whose summary is computed on its own.
MaxMeasurements == 2

\* The largest signal percent that netsh is taken to report.
MaxPercent == 100

\* --------------------------------------------------------------- constants

\* measure_latency(samples = 5)
LatencySamples == 5

\* measure_upload(size_mb = 2.0): int(2.0 * 1024 * 1024)
UploadDataSize == 2097152

\* ---------------------------------------------------------------- optional

None == << >>

Some(x) == << x >>

IsSome(o) == o # << >>

Val(o) == o[1]

\* Python truthiness of an Optional number: not None and not zero.
Truthy(o) == IsSome(o) /\ Val(o) # 0

\* -------------------------------------------------------------- arithmetic

Abs(x) == IF x < 0 THEN -x ELSE x

RECURSIVE Gcd(_, _)
Gcd(a, b) == IF b = 0 THEN a ELSE Gcd(b, a % b)

\* n / d rounded to the nearest integer, ties to even (Python's round), for
\* n >= 0 and d > 0.
RoundHalfEven(n, d) ==
    LET q == n \div d
        r == n % d
    IN  IF 2 * r < d THEN q
        ELSE IF 2 * r > d THEN q + 1
        ELSE IF q % 2 = 0 THEN q ELSE q + 1

\* round(n / d, 2) in hundredths.
Round2(n, d) ==
    LET g == Gcd(100, d)
    IN  RoundHalfEven((100 \div g) * n, d \div g)

RECURSIVE SeqSum(_)
SeqSum(s) == IF s = << >> THEN 0 ELSE s[1] + SeqSum(Tail(s))

RECURSIVE SeqMin(_)
SeqMin(s) ==
    IF Len(s) = 1 THEN s[1]
    ELSE LET m == SeqMin(Tail(s)) IN IF s[1] < m THEN s[1] ELSE m

RECURSIVE SeqMax(_)
SeqMax(s) ==
    IF Len(s) = 1 THEN s[1]
    ELSE LET m == SeqMax(Tail(s)) IN IF s[1] > m THEN s[1] ELSE m

\* ----------------------------------------------------------- quality model

\* The rating with the first threshold read as a strict one.
get_quality_rating_strict(signal_strength_dbm) ==
    IF signal_strength_dbm = None THEN << "Unknown", 0 >>
    ELSE LET dbm == Val(signal_strength_dbm)
         IN  IF dbm > -50 THEN << "Excellent", 100 >>
             ELSE IF dbm >= -60 THEN << "Very Good", 80 >>
             ELSE IF dbm >= -67 THEN << "Good", 60 >>
             ELSE IF dbm >= -70 THEN << "Fair", 40 >>
             ELSE IF dbm >= -80 THEN << "Weak", 20 >>
             ELSE << "Poor", 10 >>

\* WLANInfo.get_quality_rating: (rating_text, score).
get_quality_rating(signal_strength_dbm) ==
    IF signal_strength_dbm = None THEN << "Unknown", 0 >>
    ELSE LET dbm == Val(signal_strength_dbm)
         IN  IF dbm >= -50 THEN << "Excellent", 100 >>
             ELSE IF dbm >= -60 THEN << "Very Good", 80 >>
             ELSE IF dbm >= -67 THEN << "Good", 60 >>
             ELSE IF dbm >= -70 THEN << "Fair", 40 >>
             ELSE IF dbm >= -80 THEN << "Weak", 20 >>
             ELSE << "Poor", 10 >>

\* ------------------------------------------------- channel, frequency, band

\* _get_windows_wlan: "if channel:" then the two grids.
windows_frequency(channel) ==
    IF Truthy(channel)
    THEN IF Val(channel) <= 14 THEN Some(2412 + (Val(channel) - 1) * 5)
         ELSE IF Val(channel) >= 36 THEN Some(5180 + (Val(channel) - 36) * 5)
         ELSE None
    ELSE None

\* _get_macos_wlan: the same derivation.
macos_frequency(channel) ==
    IF Truthy(channel)
    THEN IF Val(channel) <= 14 THEN Some(2412 + (Val(channel) - 1) * 5)
         ELSE IF Val(channel) >= 36 THEN Some(5180 + (Val(channel) - 36) * 5)
         ELSE None
    ELSE None

\* The inverse conversion with the 2.4 GHz channels counted from 0.
linux_channel_from_zero(frequency) ==
    IF Truthy(frequency)
    THEN IF Val(frequency) >= 2412 /\ Val(frequency) <= 2484
         THEN Some((Val(frequency) - 2412) \div 5)
         ELSE IF Val(frequency) >= 5180
         THEN Some((Val(frequency) - 5180) \div 5 + 36)
         ELSE None
    ELSE None

\* _get_linux_wlan: "if frequency:" then the channel of the frequency.
linux_channel(frequency) ==
    IF Truthy(frequency)
    THEN IF Val(frequency) >= 2412 /\ Val(frequency) <= 2484
         THEN Some((Val(frequency) - 2412) \div 5 + 1)
         ELSE IF Val(frequency) >= 5180
         THEN Some((Val(frequency) - 5180) \div 5 + 36)
         ELSE None
    ELSE None

\* _get_windows_wlan: band detection.
windows_band(frequency) ==
    IF Truthy(frequency)
    THEN IF Val(frequency) < 3000 THEN Some("2.4GHz")
         ELSE IF Val(frequency) < 6000 THEN Some("5GHz")
         ELSE Some("6GHz")
    ELSE None

\* _get_linux_wlan: band.
linux_band(frequency) ==
    IF Truthy(frequency)
    THEN IF Val(frequency) < 3000 THEN Some("2.4GHz")
         ELSE IF Val(frequency) < 6000 THEN Some("5GHz")
         ELSE Some("6GHz")
    ELSE None

\* _get_macos_wlan: band.
macos_band(frequency) ==
    IF Truthy(frequency)
    THEN IF Val(frequency) < 3000 THEN Some("2.4GHz")
         ELSE IF Val(frequency) < 6000 THEN Some("5GHz")
         ELSE Some("6GHz")
    ELSE None

\* ------------------------------------------------------ the scanner's parsing

\* What a tool's output holds for one field: no such line, text that is not
\* a number, digits with more than one dot ("1.2.3"), or a number.
Missing == << "missing" >>

Bad == << "bad" >>

Dotted == << "dotted" >>

Num(n) == << "num", n >>

\* "Link Quality=q/m" of iwconfig.
Ratio(q, m) == << "ratio", q, m >>

IsNum(r) == r[1] = "num"

\* int(n / 2) for the float n / 2: truncation toward zero.
IntOfHalf(n) == IF n >= 0 THEN n \div 2 ELSE -((-n) \div 2)

\* max(0, min(100, x))
Clamp100(x) == IF x < 0 THEN 0 ELSE IF x > 100 THEN 100 ELSE x

\* The fields of a WLANInfo that the scanners compute.
WLANInfo(channel, freq, dbm, pct, link, tx, rx, noise, snr, band) ==
    [ channel             |-> channel,
      frequency_mhz       |-> freq,
      signal_strength_dbm |-> dbm,
      signal_quality_pct  |-> pct,
      link_speed_mbps     |-> link,
      tx_rate_mbps        |-> tx,
      rx_rate_mbps        |-> rx,
      noise_dbm           |-> noise,
      snr_db              |-> snr,
      band                |-> band ]

\* _get_windows_wlan: info.get('signal', '0%').replace('%', ''), then
\* int(signal_str) if signal_str.isdigit() else None
windows_signal_pct(r) ==
    IF r = Missing THEN Some(0)
    ELSE IF IsNum(r) /\ r[2] >= 0 THEN Some(r[2])
    ELSE None

\* _get_windows_wlan: int(-100 + (signal_pct / 2))
windows_signal_dbm(signal_pct) ==
    IF IsSome(signal_pct) THEN Some(IntOfHalf(Val(signal_pct) - 200))
    ELSE None

\* int(s) if s.isdigit() else None
windows_digits(r) == IF IsNum(r) /\ r[2] >= 0 THEN Some(r[2]) ELSE None

\* float(s) if s.replace('.', '').isdigit() else None, after the comma of
\* the value became a dot; float("1.2.3") raises ValueError.
windows_rate(r) == IF IsNum(r) /\ r[2] >= 0 THEN Some(r[2]) ELSE None

windows_raises(raw) == raw.rx = Dotted \/ raw.tx = Dotted

\* _get_windows_wlan with netsh having answered.
_get_windows_wlan(raw) ==
    LET signal_pct == windows_signal_pct(raw.signal)
        signal_dbm == windows_signal_dbm(signal_pct)
        channel    == windows_digits(raw.channel)
        frequency  == windows_frequency(channel)
        rx_rate    == windows_rate(raw.rx)
        tx_rate    == windows_rate(raw.tx)
        band       == windows_band(frequency)
    IN  WLANInfo(channel, frequency, signal_dbm, signal_pct, rx_rate,
                 tx_rate, rx_rate, None, None, band)

\* re.search(r'...(-?\d+)') and int(match.group(1)), or no match.
linux_int(r) == IF IsNum(r) THEN Some(r[2]) ELSE None

\* re.search(r'freq:\s*(\d+)'): no sign.
linux_frequency(r) == IF IsNum(r) /\ r[2] >= 0 THEN Some(r[2]) ELSE None

\* re.search(r'tx bitrate:\s*([\d.]+)') and float(match.group(1)), which
\* raises ValueError on "1.2.3".
linux_rate(r) == IF IsNum(r) /\ r[2] >= 0 THEN Some(r[2]) ELSE None

linux_raises(raw) == raw.tx = Dotted

\* The iwconfig block raised (the command failed, or q/0), and its bare
\* except set quality_pct = None and noise_dbm = None.
iwconfig_failed(raw) ==
    \/ ~raw.iwconfig
    \/ raw.quality[1] = "ratio" /\ raw.quality[3] = 0

\* int((int(q) / int(m)) * 100), for q/m a float that is exact.
linux_reported_quality(raw) ==
    IF iwconfig_failed(raw) THEN None
    ELSE IF raw.quality[1] = "ratio"
    THEN Some((raw.quality[2] * 100) \div raw.quality[3])
    ELSE None

linux_noise(raw) == IF iwconfig_failed(raw) THEN None ELSE linux_int(raw.noise)

\* The signal-to-quality conversion of _get_linux_wlan.
linux_quality(quality_pct, signal_dbm) ==
    IF quality_pct = None /\ IsSome(signal_dbm)
    THEN Some(Clamp100(2 * (Val(signal_dbm) + 100)))
    ELSE quality_pct

\* snr = signal_dbm - noise_dbm when both are not None
snr_of(signal_dbm, noise_dbm) ==
    IF IsSome(signal_dbm) /\ IsSome(noise_dbm)
    THEN Some(Val(signal_dbm) - Val(noise_dbm))
    ELSE None

\* _get_linux_wlan with the interface found and iw having answered.
_get_linux_wlan(raw) ==
    LET frequency   == linux_frequency(raw.freq)
        signal_dbm  == linux_int(raw.signal)
        tx_rate     == linux_rate(raw.tx)
        noise_dbm   == linux_noise(raw)
        channel     == linux_channel(frequency)
        band        == linux_band(frequency)
        quality_pct == linux_quality(linux_reported_quality(raw), signal_dbm)
        snr         == snr_of(signal_dbm, noise_dbm)
    IN  WLANInfo(channel, frequency, signal_dbm, quality_pct, tx_rate,
                 tx_rate, None, noise_dbm, snr, band)

\* int(info['agrctlrssi']) if the key is there; int(channel_str...) if the
\* value is not empty; float(info['lasttxrate']) if the key is there.
macos_number(r) == IF IsNum(r) THEN Some(r[2]) ELSE None

\* int() and float() raise ValueError on text that is no number.
macos_raises(raw) ==
    \E r \in {raw.channel, raw.signal, raw.noise, raw.tx} :
       r \in {Bad, Dotted}

macos_quality(signal_dbm) ==
    IF IsSome(signal_dbm) THEN Some(Clamp100(2 * (Val(signal_dbm) + 100)))
    ELSE None

\* _get_macos_wlan with airport having answered.
_get_macos_wlan(raw) ==
    LET channel     == macos_number(raw.channel)
        signal_dbm  == macos_number(raw.signal)
        noise_dbm   == macos_number(raw.noise)
        tx_rate     == macos_number(raw.tx)
        snr         == snr_of(signal_dbm, noise_dbm)
        quality_pct == macos_quality(signal_dbm)
        frequency   == macos_frequency(channel)
        band        == macos_band(frequency)
    IN  WLANInfo(channel, frequency, signal_dbm, quality_pct, tx_rate,
                 tx_rate, None, noise_dbm, snr, band)

\* WLANScanner.get_wlan_info: the platform's path; None when the tool gave
\* no answer (CalledProcessError, FileNotFoundError, no interface), for
\* another platform, and when the path raised anything else.
get_wlan_info(system, raw) ==
    IF system = "windows"
    THEN IF ~raw.link \/ windows_raises(raw) THEN None
         ELSE Some(_get_windows_wlan(raw))
    ELSE IF system = "linux"
    THEN IF ~raw.link \/ linux_raises(raw) THEN None
         ELSE Some(_get_linux_wlan(raw))
    ELSE IF system = "darwin"
    THEN IF ~raw.link \/ macos_raises(raw) THEN None
         ELSE Some(_get_macos_wlan(raw))
    ELSE None

\* ------------------------------------------------------------------ state

VARIABLES
    \* WLANMeter and SpeedTester fields, and the arguments of run
    cfg,              \* test_size, skip_upload, wlan_only, speed_only, quiet
    count,            \* run(count): Optional
    running,          \* WLANMeter.running
    stop_flag,        \* SpeedTester._stop_flag
    measurements,     \* WLANMeter.measurements
    \* the main thread: its position and the locals of run, run_single,
    \* run_full_test and the measure_* functions
    pc,
    iteration,
    wlan,
    speed,
    latencies,
    lat_i,            \* connection attempts made by measure_latency
    ping_ms,
    jitter_ms,
    url_i,            \* endpoints passed by the current for-loop over urls
    bytes_downloaded, \* measure_download's running sum for the open stream
    bursts,           \* read bursts taken from the open stream
    download_mbps,    \* Optional exact fraction << bits, dur_us >>
    bytes_down,
    upload_mbps,
    bytes_up,
    summary,          \* what _print_summary reports
    \* observation of the run (no code reads these)
    sleeps,           \* time.sleep calls made
    cancelled,        \* the signal handler has run
    late_cycle,       \* a cycle began after the signal handler had run
    stop_at,          \* where the main thread was when the flag was first set
    dl_log,           \* the download endpoints attempted, with their outcome
    ul_log,           \* the upload endpoints attempted, with their outcome
    calls,            \* the cycle's calls of the scanner and the prober, and
                      \* what they returned
    \* the scanner's conversions
    platform,
    rawChannel,       \* the channel reported (Optional)
    rawFrequency,     \* the frequency reported (Optional)
    info,             \* the WLANInfo fields derived (Optional)
    back,             \* the derived value converted back (Optional)
    \* the scanner's readings
    raw,              \* the fields of the tool's output
    reading,          \* what get_wlan_info returned (Optional; None: not called)
    \* the quality model
    dbm_in,
    rating

meterVars == << cfg, count, running, stop_flag, measurements >>

threadVars ==
    << pc, iteration, wlan, speed, latencies, lat_i, ping_ms, jitter_ms, url_i,
       bytes_downloaded, bursts, download_mbps, bytes_down, upload_mbps,
       bytes_up, summary >>

obsVars == << sleeps, cancelled, late_cycle, stop_at, dl_log, ul_log, calls >>

scanVars == << platform, rawChannel, rawFrequency, info, back >>

readVars == << raw, reading >>

rateVars == << dbm_in, rating >>

vars == << meterVars, threadVars, obsVars, scanVars, readVars, rateVars >>

\* ------------------------------------------------------------ configuration

SPEED_TEST_URLS ==
    [ small  |-> << "http://speedtest.tele2.net/1MB.zip",
                    "http://proof.ovh.net/files/1Mb.dat" >>,
      medium |-> << "http://speedtest.tele2.net/10MB.zip",
                    "http://proof.ovh.net/files/10Mb.dat" >>,
      large  |-> << "http://speedtest.tele2.net/100MB.zip",
                    "http://proof.ovh.net/files/100Mb.dat" >> ]

UPLOAD_TEST_URLS ==
    << "http://speedtest.tele2.net/upload.php", "https://httpbin.org/post" >>

\* measure_download: SPEED_TEST_URLS.get(size, SPEED_TEST_URLS["medium"])
DownloadUrls(size) ==
    IF size \in DOMAIN SPEED_TEST_URLS THEN SPEED_TEST_URLS[size]
    ELSE SPEED_TEST_URLS["medium"]

\* ------------------------------------------------------------ the prober

\* The latency result with the jitter taken over the sorted samples' span.
LatencyResultSpan(lats) ==
    IF lats = << >> THEN << None, None >>
    ELSE << Some(Round2(SeqSum(lats), Len(lats))),
            IF Len(lats) > 1
            THEN Some(Round2(SeqMax(lats) - SeqMin(lats), Len(lats) - 1))
            ELSE Some(0) >>

\* measure_latency after its loop: (avg_ping_ms, jitter_ms), rounded.
LatencyResult(lats) ==
    IF lats = << >> THEN << None, None >>
    ELSE << Some(Round2(SeqSum(lats), Len(lats))),
            IF Len(lats) > 1
            THEN Some(Round2(
                     SeqSum([i \in 1..(Len(lats) - 1) |->
                                Abs(lats[i + 1] - lats[i])]),
                     Len(lats) - 1))
            ELSE Some(0) >>

\* Python truthiness of an Optional float held as a fraction.
TruthyFraction(o) == IsSome(o) /\ Val(o)[1] # 0

\* round(x, 2) if x else None
RoundOrNone(o) ==
    IF TruthyFraction(o) THEN Some(Round2(Val(o)[1], Val(o)[2])) ELSE None

\* The result with success requiring an upload speed as well.
SpeedTestResultStrict(timestamp, dl, bdown, ul, bup, ping, jitter) ==
    [ timestamp        |-> timestamp,
      download_mbps    |-> RoundOrNone(dl),
      upload_mbps      |-> RoundOrNone(ul),
      ping_ms          |-> ping,
      jitter_ms        |-> jitter,
      test_server      |-> Some("speedtest.tele2.net"),
      bytes_downloaded |-> bdown,
      bytes_uploaded   |-> bup,
      success          |-> IsSome(dl) /\ IsSome(ul),
      error            |-> IF IsSome(dl) /\ IsSome(ul) THEN None
                           ELSE Some("Speed test failed") ]

\* run_full_test: the SpeedTestResult it returns.
SpeedTestResult(timestamp, dl, bdown, ul, bup, ping, jitter) ==
    [ timestamp        |-> timestamp,
      download_mbps    |-> RoundOrNone(dl),
      upload_mbps      |-> RoundOrNone(ul),
      ping_ms          |-> ping,
      jitter_ms        |-> jitter,
      test_server      |-> Some("speedtest.tele2.net"),
      bytes_downloaded |-> bdown,
      bytes_uploaded   |-> bup,
      success          |-> IsSome(dl),
      error            |-> IF IsSome(dl) THEN None
                           ELSE Some("Speed test failed") ]

\* ------------------------------------------------------------ the summary

\* min, max and sum/len of a list; err is the ValueError of min([]) and the
\* ZeroDivisionError of sum/len on an empty list.
StatsOf(vals) ==
    [ err |-> vals = << >>,
      min |-> IF vals = << >> THEN 0 ELSE SeqMin(vals),
      max |-> IF vals = << >> THEN 0 ELSE SeqMax(vals),
      sum |-> SeqSum(vals),
      n   |-> Len(vals) ]

\* A metric group printed without the emptiness test.
ReportGroupUnguarded(vals) == Some(StatsOf(vals))

\* _print_summary: "if signals:" (downloads, uploads) then min, max, avg.
ReportGroup(vals) == IF vals # << >> THEN Some(StatsOf(vals)) ELSE None

NoSummary ==
    [ printed |-> FALSE, wlan |-> None, download |-> None, upload |-> None ]

\* WLANMeter._print_summary
_print_summary(ms, quiet) ==
    IF quiet \/ ms = << >> THEN NoSummary
    ELSE
    LET HasWlan(m) == IsSome(m.wlan)
        wlan_results == SelectSeq(ms, HasWlan)
        HasSignal(m) == Truthy(Val(m.wlan).signal_strength_dbm)
        signals == [i \in 1..Len(SelectSeq(wlan_results, HasSignal)) |->
                      Val(Val(SelectSeq(wlan_results, HasSignal)[i].wlan)
                              .signal_strength_dbm)]
        Succeeded(m) == IsSome(m.speed) /\ Val(m.speed).success
        speed_results == SelectSeq(ms, Succeeded)
        HasDown(m) == Truthy(Val(m.speed).download_mbps)
        HasUp(m) == Truthy(Val(m.speed).upload_mbps)
        downloads == [i \in 1..Len(SelectSeq(speed_results, HasDown)) |->
                        Val(Val(SelectSeq(speed_results, HasDown)[i].speed)
                                .download_mbps)]
        uploads == [i \in 1..Len(SelectSeq(speed_results, HasUp)) |->
                      Val(Val(SelectSeq(speed_results, HasUp)[i].speed)
                              .upload_mbps)]
    IN  [ printed  |-> TRUE,
          wlan     |-> IF wlan_results # << >> THEN ReportGroup(signals)
                       ELSE None,
          download |-> IF speed_results # << >> THEN ReportGroup(downloads)
                       ELSE None,
          upload   |-> IF speed_results # << >> THEN ReportGroup(uploads)
                       ELSE None ]

\* ------------------------------------------------------------- outcomes
\* What the environment may answer in one run of the model: D.wlan the
\* scanner's outcomes, D.lat one connection attempt's (None: it failed,
\* Some(ms): it took ms), D.open whether urlopen returns, D.read what the
\* stream does next, D.bytes the sizes of a read burst, D.dur the elapsed
\* times in microseconds, D.up an upload's (None: it raised, Some(us)).

\* Where a stop request finds the main thread, as far as the phases of
\* run_full_test go.
Boundary ==
    IF pc = "main" THEN "before_run"
    ELSE IF pc = "rft_begin" THEN "before_probe"
    ELSE IF pc = "download" /\ url_i = 0 THEN "latency_download"
    ELSE IF pc = "upload_check" THEN "download_upload"
    ELSE "elsewhere"

\* One endpoint attempt: "ok" (a speed was returned), "nothing" (the transfer
\* ended without an exception but with no bytes or no elapsed time) or
\* "error" (an exception), with the bytes transferred and the elapsed time.
Logged(log, url, outcome, bytes, dur) ==
    Append(log, [url |-> url, outcome |-> outcome, bytes |-> bytes, dur |-> dur])

\* No call made yet in this cycle; stopped: the flag was set when the
\* prober was called.
NoCalls ==
    [ scanner |-> 0, prober |-> 0, wlan |-> None, speed |-> None,
      stopped |-> FALSE ]

\* ------------------------------------------------------------ the run loop

\* main calls meter.run: self.running = True ... iteration = 0
run_enter ==
    /\ pc = "main"
    /\ running' = TRUE
    /\ iteration' = 0
    /\ pc' = "while"
    /\ UNCHANGED << cfg, count, stop_flag, measurements, wlan, speed,
                    latencies, lat_i, ping_ms, jitter_ms, url_i,
                    bytes_downloaded, bursts, download_mbps, bytes_down,
                    upload_mbps, bytes_up, summary, sleeps, cancelled,
                    late_cycle, stop_at, dl_log, ul_log, platform, rawChannel,
                    rawFrequency, info, back, raw, reading, dbm_in, rating,
                    calls >>

\* while self.running: iteration += 1
while_test ==
    /\ pc = "while"
    /\ IF running
       THEN /\ iteration < MaxCount
            /\ iteration' = iteration + 1
            /\ late_cycle' = (late_cycle \/ cancelled)
            /\ pc' = "run_single"
       ELSE /\ pc' = "finally"
            /\ UNCHANGED << iteration, late_cycle >>
    /\ UNCHANGED << cfg, count, running, stop_flag, measurements, wlan, speed,
                    latencies, lat_i, ping_ms, jitter_ms, url_i,
                    bytes_downloaded, bursts, download_mbps, bytes_down,
                    upload_mbps, bytes_up, summary, sleeps, cancelled, stop_at,
                    dl_log, ul_log, platform, rawChannel, rawFrequency, info,
                    back, raw, reading, dbm_in, rating, calls >>

\* run_single with the probe left out when the scanner gave no reading.
run_single_scan_give_up(D) ==
    /\ pc = "run_single"
    /\ \E w \in (IF cfg.speed_only THEN {None} ELSE D.wlan) :
          /\ wlan' = w
          /\ calls' = [calls EXCEPT
                          !.scanner = IF cfg.speed_only THEN @ ELSE @ + 1,
                          !.wlan = w]
    /\ speed' = None
    /\ pc' = IF cfg.wlan_only \/ wlan' = None THEN "rs_return" ELSE "rft_begin"
    /\ UNCHANGED << cfg, count, running, stop_flag, measurements, iteration,
                    latencies, lat_i, ping_ms, jitter_ms, url_i,
                    bytes_downloaded, bursts, download_mbps, bytes_down,
                    upload_mbps, bytes_up, summary, sleeps, cancelled,
                    late_cycle, stop_at, dl_log, ul_log, platform, rawChannel,
                    rawFrequency, info, back, raw, reading, dbm_in, rating >>

\* run_single up to the call of run_full_test
run_single_scan(D) ==
    /\ pc = "run_single"
    /\ \E w \in (IF cfg.speed_only THEN {None} ELSE D.wlan) :
          /\ wlan' = w
          /\ calls' = [calls EXCEPT
                          !.scanner = IF cfg.speed_only THEN @ ELSE @ + 1,
                          !.wlan = w]
    /\ speed' = None
    /\ pc' = IF cfg.wlan_only THEN "rs_return" ELSE "rft_begin"
    /\ UNCHANGED << cfg, count, running, stop_flag, measurements, iteration,
                    latencies, lat_i, ping_ms, jitter_ms, url_i,
                    bytes_downloaded, bursts, download_mbps, bytes_down,
                    upload_mbps, bytes_up, summary, sleeps, cancelled,
                    late_cycle, stop_at, dl_log, ul_log, platform, rawChannel,
                    rawFrequency, info, back, raw, reading, dbm_in, rating >>

\* run_full_test and measure_latency up to the sampling loop
rft_begin ==
    /\ pc = "rft_begin"
    /\ latencies' = << >>
    /\ lat_i' = 0
    /\ ping_ms' = None
    /\ jitter_ms' = None
    /\ url_i' = 0
    /\ bytes_downloaded' = 0
    /\ bursts' = 0
    /\ download_mbps' = None
    /\ bytes_down' = 0
    /\ upload_mbps' = None
    /\ bytes_up' = 0
    /\ dl_log' = << >>
    /\ ul_log' = << >>
    /\ calls' = [calls EXCEPT !.prober = @ + 1, !.stopped = stop_flag]
    /\ pc' = "latency"
    /\ UNCHANGED << cfg, count, running, stop_flag, measurements, iteration,
                    wlan, speed, summary, sleeps, cancelled, late_cycle,
                    stop_at, platform, rawChannel, rawFrequency, info, back,
                    raw, reading, dbm_in, rating >>

\* A pass of the sampling loop without the test of the stop flag.
latency_attempt_unchecked(D) ==
    /\ pc = "latency"
    /\ lat_i < LatencySamples
    /\ lat_i' = lat_i + 1
    /\ \E o \in D.lat :
          latencies' = IF IsSome(o) THEN Append(latencies, Val(o))
                       ELSE latencies
    /\ UNCHANGED << cfg, count, running, stop_flag, measurements, pc,
                    iteration, wlan, speed, ping_ms, jitter_ms, url_i,
                    bytes_downloaded, bursts, download_mbps, bytes_down,
                    upload_mbps, bytes_up, summary, sleeps, cancelled,
                    late_cycle, stop_at, dl_log, ul_log, platform, rawChannel,
                    rawFrequency, info, back, raw, reading, dbm_in, rating,
                    calls >>

\* measure_latency: one pass of the loop with the flag clear
latency_attempt(D) ==
    /\ pc = "latency"
    /\ lat_i < LatencySamples
    /\ ~stop_flag
    /\ lat_i' = lat_i + 1
    /\ \E o \in D.lat :
          latencies' = IF IsSome(o) THEN Append(latencies, Val(o))
                       ELSE latencies
    /\ UNCHANGED << cfg, count, running, stop_flag, measurements, pc,
                    iteration, wlan, speed, ping_ms, jitter_ms, url_i,
                    bytes_downloaded, bursts, download_mbps, bytes_down,
                    upload_mbps, bytes_up, summary, sleeps, cancelled,
                    late_cycle, stop_at, dl_log, ul_log, platform, rawChannel,
                    rawFrequency, info, back, raw, reading, dbm_in, rating,
                    calls >>

\* measure_latency: the loop ends (range exhausted, or break) and returns
latency_finish ==
    /\ pc = "latency"
    /\ lat_i = LatencySamples \/ stop_flag
    /\ ping_ms' = LatencyResult(latencies)[1]
    /\ jitter_ms' = LatencyResult(latencies)[2]
    /\ latencies' = << >>
    /\ lat_i' = 0
    /\ url_i' = 0
    /\ pc' = "download"
    /\ UNCHANGED << cfg, count, running, stop_flag, measurements, iteration,
                    wlan, speed, bytes_downloaded, bursts, download_mbps,
                    bytes_down, upload_mbps, bytes_up, summary, sleeps,
                    cancelled, late_cycle, stop_at, dl_log, ul_log, platform,
                    rawChannel, rawFrequency, info, back, raw, reading, dbm_in,
                    rating, calls >>

\* The head of the for-loop without the test of the stop flag.
download_next_unchecked(D) ==
    /\ pc = "download"
    /\ IF url_i < Len(DownloadUrls(cfg.test_size))
       THEN \E opened \in D.open :
               IF opened
               THEN /\ bytes_downloaded' = 0
                    /\ bursts' = 0
                    /\ pc' = "dl_read"
                    /\ UNCHANGED << url_i, download_mbps, bytes_down, dl_log >>
               ELSE /\ dl_log' = Logged(dl_log,
                            DownloadUrls(cfg.test_size)[url_i + 1], "error",
                            0, 0)
                    /\ url_i' = url_i + 1
                    /\ pc' = "download"
                    /\ UNCHANGED << bytes_downloaded, bursts, download_mbps,
                                    bytes_down >>
       ELSE /\ download_mbps' = None
            /\ bytes_down' = 0
            /\ url_i' = 0
            /\ pc' = "upload_check"
            /\ UNCHANGED << bytes_downloaded, bursts, dl_log >>
    /\ UNCHANGED << cfg, count, running, stop_flag, measurements, iteration,
                    wlan, speed, latencies, lat_i, ping_ms, jitter_ms,
                    upload_mbps, bytes_up, summary, sleeps, cancelled,
                    late_cycle, stop_at, ul_log, platform, rawChannel,
                    rawFrequency, info, back, raw, reading, dbm_in, rating,
                    calls >>

\* measure_download: the head of the for-loop and urlopen
download_next(D) ==
    /\ pc = "download"
    /\ IF url_i < Len(DownloadUrls(cfg.test_size))
       THEN IF stop_flag
            THEN /\ download_mbps' = None
                 /\ bytes_down' = 0
                 /\ url_i' = 0
                 /\ pc' = "upload_check"
                 /\ UNCHANGED << bytes_downloaded, bursts, dl_log >>
            ELSE \E opened \in D.open :
                    IF opened
                    THEN /\ bytes_downloaded' = 0
                         /\ bursts' = 0
                         /\ pc' = "dl_read"
                         /\ UNCHANGED << url_i, download_mbps, bytes_down,
                                         dl_log >>
                    ELSE /\ dl_log' = Logged(dl_log,
                                 DownloadUrls(cfg.test_size)[url_i + 1], "error",
                                 0, 0)
                         /\ url_i' = url_i + 1
                         /\ pc' = "download"
                         /\ UNCHANGED << bytes_downloaded, bursts,
                                         download_mbps, bytes_down >>
       ELSE /\ download_mbps' = None
            /\ bytes_down' = 0
            /\ url_i' = 0
            /\ pc' = "upload_check"
            /\ UNCHANGED << bytes_downloaded, bursts, dl_log >>
    /\ UNCHANGED << cfg, count, running, stop_flag, measurements, iteration,
                    wlan, speed, latencies, lat_i, ping_ms, jitter_ms,
                    upload_mbps, bytes_up, summary, sleeps, cancelled,
                    late_cycle, stop_at, ul_log, platform, rawChannel,
                    rawFrequency, info, back, raw, reading, dbm_in, rating,
                    calls >>

\* The measured stream with the loop going on to the next endpoint after a
\* success as well (the last success wins).
DownloadMeasuredContinue(d) ==
    /\ bytes_downloaded' = 0
    /\ bursts' = 0
    /\ url_i' = url_i + 1
    /\ pc' = "download"
    /\ IF d > 0 /\ bytes_downloaded > 0
       THEN /\ download_mbps' = Some(<< bytes_downloaded * 8, d >>)
            /\ bytes_down' = bytes_downloaded
            /\ dl_log' = Logged(dl_log, DownloadUrls(cfg.test_size)[url_i + 1],
                                "ok", bytes_downloaded, d)
       ELSE /\ dl_log' = Logged(dl_log, DownloadUrls(cfg.test_size)[url_i + 1],
                                "nothing", bytes_downloaded, d)
            /\ UNCHANGED << download_mbps, bytes_down >>

\* measure_download: the stream is done (break or end of data); the elapsed
\* time d decides between returning the speed and the next endpoint.
DownloadMeasured(d) ==
    /\ bytes_downloaded' = 0
    /\ bursts' = 0
    /\ IF d > 0 /\ bytes_downloaded > 0
       THEN /\ download_mbps' = Some(<< bytes_downloaded * 8, d >>)
            /\ bytes_down' = bytes_downloaded
            /\ dl_log' = Logged(dl_log, DownloadUrls(cfg.test_size)[url_i + 1],
                                "ok", bytes_downloaded, d)
            /\ url_i' = 0
            /\ pc' = "upload_check"
       ELSE /\ dl_log' = Logged(dl_log, DownloadUrls(cfg.test_size)[url_i + 1],
                                "nothing", bytes_downloaded, d)
            /\ url_i' = url_i + 1
            /\ pc' = "download"
            /\ UNCHANGED << download_mbps, bytes_down >>

\* measure_download: the chunk loop of the open stream
download_read(D) ==
    /\ pc = "dl_read"
    /\ IF stop_flag
       THEN \E d \in D.dur : DownloadMeasured(d)
       ELSE \E r \in D.read :
               CASE r = "data" ->
                      /\ bursts < MaxBursts
                      /\ \E n \in D.bytes :
                            bytes_downloaded' = bytes_downloaded + n
                      /\ bursts' = bursts + 1
                      /\ UNCHANGED << pc, url_i, download_mbps, bytes_down,
                                      dl_log >>
                 [] r = "eof" ->
                      \E d \in D.dur : DownloadMeasured(d)
                 [] OTHER ->
                      /\ dl_log' = Logged(dl_log,
                              DownloadUrls(cfg.test_size)[url_i + 1], "error",
                              bytes_downloaded, 0)
                      /\ url_i' = url_i + 1
                      /\ bytes_downloaded' = 0
                      /\ bursts' = 0
                      /\ pc' = "download"
                      /\ UNCHANGED << download_mbps, bytes_down >>
    /\ UNCHANGED << cfg, count, running, stop_flag, measurements, iteration,
                    wlan, speed, latencies, lat_i, ping_ms, jitter_ms,
                    upload_mbps, bytes_up, summary, sleeps, cancelled,
                    late_cycle, stop_at, ul_log, platform, rawChannel,
                    rawFrequency, info, back, raw, reading, dbm_in, rating,
                    calls >>

\* run_full_test: upload_mbps = None ... if not skip_upload and not stop
upload_check ==
    /\ pc = "upload_check"
    /\ upload_mbps' = None
    /\ bytes_up' = 0
    /\ url_i' = 0
    /\ pc' = IF ~cfg.skip_upload /\ ~stop_flag THEN "upload" ELSE "rft_return"
    /\ UNCHANGED << cfg, count, running, stop_flag, measurements, iteration,
                    wlan, speed, latencies, lat_i, ping_ms, jitter_ms,
                    bytes_downloaded, bursts, download_mbps, bytes_down,
                    summary, sleeps, cancelled, late_cycle, stop_at, dl_log,
                    ul_log, platform, rawChannel, rawFrequency, info, back,
                    raw, reading, dbm_in, rating, calls >>

\* measure_upload: one pass of the for-loop, or its end
upload_next(D) ==
    /\ pc = "upload"
    /\ IF url_i < Len(UPLOAD_TEST_URLS) /\ ~stop_flag
       THEN \E o \in D.up :
               IF IsSome(o) /\ Val(o) > 0
               THEN /\ upload_mbps' = Some(<< UploadDataSize * 8, Val(o) >>)
                    /\ bytes_up' = UploadDataSize
                    /\ ul_log' = Logged(ul_log, UPLOAD_TEST_URLS[url_i + 1], "ok",
                                        UploadDataSize, Val(o))
                    /\ url_i' = 0
                    /\ pc' = "rft_return"
               ELSE /\ ul_log' = Logged(ul_log, UPLOAD_TEST_URLS[url_i + 1],
                                        IF IsSome(o) THEN "nothing" ELSE "error",
                                        UploadDataSize, 0)
                    /\ url_i' = url_i + 1
                    /\ pc' = "upload"
                    /\ UNCHANGED << upload_mbps, bytes_up >>
       ELSE /\ upload_mbps' = None
            /\ bytes_up' = 0
            /\ url_i' = 0
            /\ pc' = "rft_return"
            /\ UNCHANGED ul_log
    /\ UNCHANGED << cfg, count, running, stop_flag, measurements, iteration,
                    wlan, speed, latencies, lat_i, ping_ms, jitter_ms,
                    bytes_downloaded, bursts, download_mbps, bytes_down,
                    summary, sleeps, cancelled, late_cycle, stop_at, dl_log,
                    platform, rawChannel, rawFrequency, info, back, raw,
                    reading, dbm_in, rating, calls >>

\* run_full_test: success = ...; return SpeedTestResult(...)
rft_return ==
    /\ pc = "rft_return"
    /\ speed' = Some(SpeedTestResult(iteration, download_mbps, bytes_down,
                                     upload_mbps, bytes_up, ping_ms, jitter_ms))
    /\ calls' = [calls EXCEPT !.speed = speed']
    /\ pc' = "rs_return"
    /\ UNCHANGED << cfg, count, running, stop_flag, measurements, iteration,
                    wlan, latencies, lat_i, ping_ms, jitter_ms, url_i,
                    bytes_downloaded, bursts, download_mbps, bytes_down,
                    upload_mbps, bytes_up, summary, sleeps, cancelled,
                    late_cycle, stop_at, dl_log, ul_log, platform, rawChannel,
                    rawFrequency, info, back, raw, reading, dbm_in, rating >>

\* The end of a cycle with the count test off by one (iteration > count).
append_and_check_late ==
    /\ pc = "rs_return"
    /\ measurements' = Append(measurements,
           [timestamp |-> iteration, wlan |-> wlan, speed |-> speed])
    /\ wlan' = None
    /\ speed' = None
    /\ ping_ms' = None
    /\ jitter_ms' = None
    /\ download_mbps' = None
    /\ bytes_down' = 0
    /\ upload_mbps' = None
    /\ bytes_up' = 0
    /\ dl_log' = << >>
    /\ ul_log' = << >>
    /\ calls' = NoCalls
    /\ pc' = IF Truthy(count) /\ iteration > Val(count) THEN "finally"
             ELSE IF running /\ (count = None \/ iteration < Val(count))
             THEN "sleep"
             ELSE "while"
    /\ UNCHANGED << cfg, count, running, stop_flag, iteration, latencies,
                    lat_i, url_i, bytes_downloaded, bursts, summary, sleeps,
                    cancelled, late_cycle, stop_at, platform, rawChannel,
                    rawFrequency, info, back, raw, reading, dbm_in, rating >>

\* run_single returns (its locals, those of run_full_test and the record of
\* the probe's attempts end here); run appends, checks count and decides on
\* the sleep
append_and_check ==
    /\ pc = "rs_return"
    /\ measurements' = Append(measurements,
           [timestamp |-> iteration, wlan |-> wlan, speed |-> speed])
    /\ wlan' = None
    /\ speed' = None
    /\ ping_ms' = None
    /\ jitter_ms' = None
    /\ download_mbps' = None
    /\ bytes_down' = 0
    /\ upload_mbps' = None
    /\ bytes_up' = 0
    /\ dl_log' = << >>
    /\ ul_log' = << >>
    /\ calls' = NoCalls
    /\ pc' = IF Truthy(count) /\ iteration >= Val(count) THEN "finally"
             ELSE IF running /\ (count = None \/ iteration < Val(count))
             THEN "sleep"
             ELSE "while"
    /\ UNCHANGED << cfg, count, running, stop_flag, iteration, latencies,
                    lat_i, url_i, bytes_downloaded, bursts, summary, sleeps,
                    cancelled, late_cycle, stop_at, platform, rawChannel,
                    rawFrequency, info, back, raw, reading, dbm_in, rating >>

\* time.sleep(self.interval) returns
sleep_done ==
    /\ pc = "sleep"
    /\ sleeps' = sleeps + 1
    /\ pc' = "while"
    /\ UNCHANGED << cfg, count, running, stop_flag, measurements, iteration,
                    wlan, speed, latencies, lat_i, ping_ms, jitter_ms, url_i,
                    bytes_downloaded, bursts, download_mbps, bytes_down,
                    upload_mbps, bytes_up, summary, cancelled, late_cycle,
                    stop_at, dl_log, ul_log, platform, rawChannel,
                    rawFrequency, info, back, raw, reading, dbm_in, rating,
                    calls >>

\* run: the finally block
run_finally ==
    /\ pc = "finally"
    /\ running' = FALSE
    /\ stop_flag' = TRUE
    /\ summary' = _print_summary(measurements, cfg.quiet)
    /\ pc' = "done"
    /\ UNCHANGED << cfg, count, measurements, iteration, wlan, speed,
                    latencies, lat_i, ping_ms, jitter_ms, url_i,
                    bytes_downloaded, bursts, download_mbps, bytes_down,
                    upload_mbps, bytes_up, sleeps, cancelled, late_cycle,
                    stop_at, dl_log, ul_log, platform, rawChannel,
                    rawFrequency, info, back, raw, reading, dbm_in, rating,
                    calls >>

\* main.signal_handler, run between two steps of the main thread
signal_handler ==
    /\ pc # "done"
    /\ running' = FALSE
    /\ stop_flag' = TRUE
    /\ cancelled' = TRUE
    /\ UNCHANGED << cfg, count, measurements, pc, iteration, wlan, speed,
                    latencies, lat_i, ping_ms, jitter_ms, url_i,
                    bytes_downloaded, bursts, download_mbps, bytes_down,
                    upload_mbps, bytes_up, summary, sleeps, late_cycle,
                    stop_at, dl_log, ul_log, platform, rawChannel,
                    rawFrequency, info, back, raw, reading, dbm_in, rating,
                    calls >>

\* SpeedTester.stop, called while run_full_test is in progress
stop ==
    /\ pc \notin {"rs_return", "done"}
    /\ ~stop_flag
    /\ stop_flag' = TRUE
    /\ stop_at' = Boundary
    /\ UNCHANGED << cfg, count, running, measurements, pc, iteration, wlan,
                    speed, latencies, lat_i, ping_ms, jitter_ms, url_i,
                    bytes_downloaded, bursts, download_mbps, bytes_down,
                    upload_mbps, bytes_up, summary, sleeps, cancelled,
                    late_cycle, dl_log, ul_log, platform, rawChannel,
                    rawFrequency, info, back, raw, reading, dbm_in, rating,
                    calls >>

\* ------------------------------------------------- the scanner's conversions

\* _get_windows_wlan: channel, frequency and band of the reading
windows_derive ==
    /\ platform = "windows"
    /\ info = None
    /\ info' = Some([ channel       |-> rawChannel,
                      frequency_mhz |-> windows_frequency(rawChannel),
                      band          |-> windows_band(windows_frequency(rawChannel)) ])
    /\ UNCHANGED << cfg, count, running, stop_flag, measurements, pc,
                    iteration, wlan, speed, latencies, lat_i, ping_ms,
                    jitter_ms, url_i, bytes_downloaded, bursts, download_mbps,
                    bytes_down, upload_mbps, bytes_up, summary, sleeps,
                    cancelled, late_cycle, stop_at, dl_log, ul_log, platform,
                    rawChannel, rawFrequency, back, raw, reading, dbm_in,
                    rating, calls >>

\* _get_macos_wlan: channel, frequency and band of the reading
macos_derive ==
    /\ platform = "darwin"
    /\ info = None
    /\ info' = Some([ channel       |-> rawChannel,
                      frequency_mhz |-> macos_frequency(rawChannel),
                      band          |-> macos_band(macos_frequency(rawChannel)) ])
    /\ UNCHANGED << cfg, count, running, stop_flag, measurements, pc,
                    iteration, wlan, speed, latencies, lat_i, ping_ms,
                    jitter_ms, url_i, bytes_downloaded, bursts, download_mbps,
                    bytes_down, upload_mbps, bytes_up, summary, sleeps,
                    cancelled, late_cycle, stop_at, dl_log, ul_log, platform,
                    rawChannel, rawFrequency, back, raw, reading, dbm_in,
                    rating, calls >>

\* _get_linux_wlan: channel, frequency and band of the reading
linux_derive ==
    /\ platform = "linux"
    /\ info = None
    /\ info' = Some([ channel       |-> linux_channel(rawFrequency),
                      frequency_mhz |-> rawFrequency,
                      band          |-> linux_band(rawFrequency) ])
    /\ UNCHANGED << cfg, count, running, stop_flag, measurements, pc,
                    iteration, wlan, speed, latencies, lat_i, ping_ms,
                    jitter_ms, url_i, bytes_downloaded, bursts, download_mbps,
                    bytes_down, upload_mbps, bytes_up, summary, sleeps,
                    cancelled, late_cycle, stop_at, dl_log, ul_log, platform,
                    rawChannel, rawFrequency, back, raw, reading, dbm_in,
                    rating, calls >>

\* The frequency a channel path derived, given to the frequency path.
frequency_back_to_channel ==
    /\ platform \in {"windows", "darwin"}
    /\ info # None
    /\ back = None
    /\ back' = Some([ channel       |-> linux_channel(Val(info).frequency_mhz),
                      frequency_mhz |-> Val(info).frequency_mhz ])
    /\ UNCHANGED << cfg, count, running, stop_flag, measurements, pc,
                    iteration, wlan, speed, latencies, lat_i, ping_ms,
                    jitter_ms, url_i, bytes_downloaded, bursts, download_mbps,
                    bytes_down, upload_mbps, bytes_up, summary, sleeps,
                    cancelled, late_cycle, stop_at, dl_log, ul_log, platform,
                    rawChannel, rawFrequency, info, raw, reading, dbm_in,
                    rating, calls >>

\* The channel the frequency path derived, given to a channel path.
channel_back_to_frequency ==
    /\ platform = "linux"
    /\ info # None
    /\ back = None
    /\ \E via \in {"windows", "darwin"} :
          back' = Some([ channel       |-> Val(info).channel,
                         frequency_mhz |->
                             IF via = "windows"
                             THEN windows_frequency(Val(info).channel)
                             ELSE macos_frequency(Val(info).channel) ])
    /\ UNCHANGED << cfg, count, running, stop_flag, measurements, pc,
                    iteration, wlan, speed, latencies, lat_i, ping_ms,
                    jitter_ms, url_i, bytes_downloaded, bursts, download_mbps,
                    bytes_down, upload_mbps, bytes_up, summary, sleeps,
                    cancelled, late_cycle, stop_at, dl_log, ul_log, platform,
                    rawChannel, rawFrequency, info, raw, reading, dbm_in,
                    rating, calls >>

\* ---------------------------------------------------------- the quality model

\* WLANInfo.get_quality_rating on the signal strength of a reading
rate ==
    /\ rating = None
    /\ rating' = Some(get_quality_rating(dbm_in))
    /\ UNCHANGED << cfg, count, running, stop_flag, measurements, pc,
                    iteration, wlan, speed, latencies, lat_i, ping_ms,
                    jitter_ms, url_i, bytes_downloaded, bursts, download_mbps,
                    bytes_down, upload_mbps, bytes_up, summary, sleeps,
                    cancelled, late_cycle, stop_at, dl_log, ul_log, platform,
                    rawChannel, rawFrequency, info, back, raw, reading, dbm_in,
                    calls >>

\* ------------------------------------------------------------ initial states

Sizes == {"small", "medium", "large"}

Config(size, skip, wonly, sonly, quiet) ==
    [ test_size |-> size, skip_upload |-> skip, wlan_only |-> wonly,
      speed_only |-> sonly, quiet |-> quiet ]

\* WLANMeter.__init__ and SpeedTester.__init__, before run.
MeterIdle ==
    /\ running = FALSE
    /\ stop_flag = FALSE
    /\ measurements = << >>

ThreadIdle ==
    /\ iteration = 0
    /\ wlan = None
    /\ speed = None
    /\ latencies = << >>
    /\ lat_i = 0
    /\ ping_ms = None
    /\ jitter_ms = None
    /\ url_i = 0
    /\ bytes_downloaded = 0
    /\ bursts = 0
    /\ download_mbps = None
    /\ bytes_down = 0
    /\ upload_mbps = None
    /\ bytes_up = 0
    /\ summary = NoSummary

ObsIdle ==
    /\ sleeps = 0
    /\ cancelled = FALSE
    /\ late_cycle = FALSE
    /\ stop_at = "never"
    /\ dl_log = << >>
    /\ ul_log = << >>
    /\ calls = NoCalls

ScanIdle ==
    /\ platform = "none"
    /\ rawChannel = None
    /\ rawFrequency = None
    /\ info = None
    /\ back = None

RateIdle ==
    /\ dbm_in = None
    /\ rating = None

NoRaw ==
    [ link |-> FALSE, signal |-> Missing, channel |-> Missing, freq |-> Missing,
      rx |-> Missing, tx |-> Missing, noise |-> Missing, quality |-> Missing,
      iwconfig |-> FALSE ]

ReadIdle ==
    /\ raw = NoRaw
    /\ reading = None

Reading(dbm) == Some([ signal_strength_dbm |-> dbm ])

\* The outcomes of the run loop's model: one value of each kind, and the
\* failures that decide a cycle's result (no reading, no download, no
\* upload).
LoopOutcomes ==
    [ wlan  |-> {None, Reading(Some(-60))},
      lat   |-> {Some(10)},
      open  |-> BOOLEAN,
      read  |-> {"data", "eof", "error"},
      bytes |-> {10000000},
      dur   |-> {1000000},
      up    |-> {None, Some(1000000)} ]

\* The outcomes of one run_full_test on its own.
ProbeOutcomes ==
    [ wlan  |-> {None},
      lat   |-> {None, Some(10), Some(12)},
      open  |-> BOOLEAN,
      read  |-> {"data", "eof", "error"},
      bytes |-> {1, 10000000},
      dur   |-> {0, 1000000, 200000000},
      up    |-> {None, Some(0), Some(1000000)} ]

\* main: the meter is built, the handlers are installed, run is not yet
\* entered.
Init ==
    /\ cfg \in {Config("medium", s, w, o, FALSE) : s, w, o \in BOOLEAN}
    /\ count \in {None} \cup {Some(n) : n \in 0..MaxCount}
    /\ pc = "main"
    /\ MeterIdle /\ ThreadIdle /\ ObsIdle /\ ScanIdle /\ RateIdle
    /\ ReadIdle

Next ==
    \/ run_enter
    \/ while_test
    \/ run_single_scan(LoopOutcomes)
    \/ rft_begin
    \/ latency_attempt(LoopOutcomes)
    \/ latency_finish
    \/ download_next(LoopOutcomes)
    \/ download_read(LoopOutcomes)
    \/ upload_check
    \/ upload_next(LoopOutcomes)
    \/ rft_return
    \/ append_and_check
    \/ sleep_done
    \/ run_finally
    \/ signal_handler

Spec == Init /\ [][Next]_vars

\* The main thread keeps running: every blocking call of a cycle returns
\* (connect and urlopen have timeouts, sleep ends), whatever the signals.
MainThread ==
    \/ run_enter
    \/ while_test
    \/ run_single_scan(LoopOutcomes)
    \/ rft_begin
    \/ latency_attempt(LoopOutcomes)
    \/ latency_finish
    \/ download_next(LoopOutcomes)
    \/ download_read(LoopOutcomes)
    \/ upload_check
    \/ upload_next(LoopOutcomes)
    \/ rft_return
    \/ append_and_check
    \/ sleep_done
    \/ run_finally

FairSpec == Spec /\ WF_vars(MainThread)

\* One call of run_full_test, the flag set before or at any point of it.
InitProbe ==
    /\ cfg \in {Config(z, s, FALSE, FALSE, FALSE) : z \in Sizes, s \in BOOLEAN}
    /\ count = None
    /\ running = TRUE
    /\ stop_flag \in BOOLEAN
    /\ measurements = << >>
    /\ pc = "rft_begin"
    /\ sleeps = 0
    /\ cancelled = FALSE
    /\ late_cycle = FALSE
    /\ stop_at = IF stop_flag THEN "before_probe" ELSE "never"
    /\ dl_log = << >>
    /\ ul_log = << >>
    /\ calls = NoCalls
    /\ iteration = 1
    /\ wlan = None
    /\ speed = None
    /\ latencies = << >>
    /\ lat_i = 0
    /\ ping_ms = None
    /\ jitter_ms = None
    /\ url_i = 0
    /\ bytes_downloaded = 0
    /\ bursts = 0
    /\ download_mbps = None
    /\ bytes_down = 0
    /\ upload_mbps = None
    /\ bytes_up = 0
    /\ summary = NoSummary
    /\ ScanIdle /\ RateIdle
    /\ ReadIdle

NextProbe ==
    \/ rft_begin
    \/ latency_attempt(ProbeOutcomes)
    \/ latency_finish
    \/ download_next(ProbeOutcomes)
    \/ download_read(ProbeOutcomes)
    \/ upload_check
    \/ upload_next(ProbeOutcomes)
    \/ rft_return
    \/ stop

SpecProbe == InitProbe /\ [][NextProbe]_vars

\* The finally block of run on an accumulated sequence of results.
SummaryWlans ==
    {None, Reading(None), Reading(Some(0)), Reading(Some(-60)),
     Reading(Some(-45))}

\* What measure_download can return: nothing; 1 byte in 200 s; 6.25 MB and
\* 10 MB in 1 s.
SummaryDownloads ==
    { << None, 0 >>, << Some(<< 8, 200000000 >>), 1 >>,
      << Some(<< 50000000, 1000000 >>), 6250000 >>,
      << Some(<< 80000000, 1000000 >>), 10000000 >> }

SummaryUploads ==
    { << None, 0 >>,
      << Some(<< UploadDataSize * 8, 1000000 >>), UploadDataSize >> }

SummaryProbes == {None} \cup {Some(p) : p \in SummaryDownloads \X SummaryUploads}

Combined(i, w, p) ==
    [ timestamp |-> i,
      wlan      |-> w,
      speed     |-> IF p = None THEN None
                    ELSE Some(SpeedTestResult(i, Val(p)[1][1], Val(p)[1][2],
                                              Val(p)[2][1], Val(p)[2][2],
                                              Some(1000), Some(0))) ]

InitSummary ==
    /\ cfg \in {Config("medium", FALSE, FALSE, FALSE, q) : q \in BOOLEAN}
    /\ count = None
    /\ running = FALSE
    /\ stop_flag = TRUE
    /\ cancelled = TRUE
    /\ \E n \in 0..MaxMeasurements :
          \E f \in [1..n -> SummaryWlans \X SummaryProbes] :
             measurements = [i \in 1..n |-> Combined(i, f[i][1], f[i][2])]
    /\ pc = "finally"
    /\ iteration = Len(measurements)
    /\ wlan = None
    /\ speed = None
    /\ latencies = << >>
    /\ lat_i = 0
    /\ ping_ms = None
    /\ jitter_ms = None
    /\ url_i = 0
    /\ bytes_downloaded = 0
    /\ bursts = 0
    /\ download_mbps = None
    /\ bytes_down = 0
    /\ upload_mbps = None
    /\ bytes_up = 0
    /\ summary = NoSummary
    /\ sleeps = IF measurements = << >> THEN 0 ELSE Len(measurements) - 1
    /\ late_cycle = FALSE
    /\ stop_at = "never"
    /\ dl_log = << >>
    /\ ul_log = << >>
    /\ calls = NoCalls
    /\ ScanIdle /\ RateIdle
    /\ ReadIdle

NextSummary == run_finally

SpecSummary == InitSummary /\ [][NextSummary]_vars

\* The scanner's conversions on a reported channel or frequency.
Frequencies ==
    {0} \cup (2400..2500) \cup (5170..(5180 + (MaxChannel - 36) * 5 + 5))

InitScan ==
    /\ \/ /\ platform = "windows"
          /\ rawChannel \in {None} \cup {Some(c) : c \in 0..MaxChannel}
          /\ rawFrequency = None
       \/ /\ platform = "darwin"
          /\ rawChannel \in {None} \cup {Some(c) : c \in -2..MaxChannel}
          /\ rawFrequency = None
       \/ /\ platform = "linux"
          /\ rawChannel = None
          /\ rawFrequency \in {None} \cup {Some(f) : f \in Frequencies}
    /\ info = None
    /\ back = None
    /\ cfg = Config("medium", FALSE, FALSE, FALSE, FALSE)
    /\ count = None
    /\ pc = "main"
    /\ MeterIdle /\ ThreadIdle /\ ObsIdle /\ RateIdle
    /\ ReadIdle

NextScan ==
    \/ windows_derive
    \/ macos_derive
    \/ linux_derive
    \/ frequency_back_to_channel
    \/ channel_back_to_frequency

SpecScan == InitScan /\ [][NextScan]_vars

\* The rating of a signal strength.
InitRate ==
    /\ dbm_in \in {None} \cup {Some(d) : d \in (-MaxAttenuation)..20}
    /\ rating = None
    /\ cfg = Config("medium", FALSE, FALSE, FALSE, FALSE)
    /\ count = None
    /\ pc = "main"
    /\ MeterIdle /\ ThreadIdle /\ ObsIdle /\ ScanIdle
    /\ ReadIdle

NextRate == rate

SpecRate == InitRate /\ [][NextRate]_vars

\* ------------------------------------------------------ the scanner's readings

\* WLANScanner.get_wlan_info on the output of the platform's tool
scan ==
    /\ platform # "none"
    /\ reading = None
    /\ reading' = Some(get_wlan_info(platform, raw))
    /\ UNCHANGED << cfg, count, running, stop_flag, measurements, pc,
                    iteration, wlan, speed, latencies, lat_i, ping_ms,
                    jitter_ms, url_i, bytes_downloaded, bursts, download_mbps,
                    bytes_down, upload_mbps, bytes_up, summary, sleeps,
                    cancelled, late_cycle, stop_at, dl_log, ul_log, platform,
                    rawChannel, rawFrequency, info, back, raw, dbm_in, rating,
                    calls >>

\* The signal strengths a tool is taken to report, in dBm.
SignalLevels == (-MaxAttenuation)..(-40)

\* netsh wlan show interfaces
WindowsOutputs ==
    [ link     : BOOLEAN,
      signal   : {Missing, Bad} \cup {Num(p) : p \in 0..MaxPercent},
      channel  : {Missing, Bad, Num(0), Num(6), Num(20), Num(36)},
      freq     : {Missing},
      rx       : {Missing, Bad, Dotted, Num(54)},
      tx       : {Missing, Dotted, Num(72)},
      noise    : {Missing},
      quality  : {Missing},
      iwconfig : {FALSE} ]

\* iw dev <interface> link, and iwconfig <interface>
LinuxOutputs ==
    [ link     : BOOLEAN,
      signal   : {Missing} \cup {Num(d) : d \in SignalLevels},
      channel  : {Missing},
      freq     : {Missing, Num(0), Num(2437), Num(5180), Num(6115)},
      rx       : {Missing},
      tx       : {Missing, Dotted, Num(72)},
      noise    : {Missing, Num(-95)},
      quality  : {Missing, Ratio(35, 70), Ratio(70, 70), Ratio(5, 0)},
      iwconfig : BOOLEAN ]

\* airport -I
MacosOutputs ==
    [ link     : BOOLEAN,
      signal   : {Missing, Bad} \cup {Num(d) : d \in SignalLevels},
      channel  : {Missing, Bad, Num(-1), Num(0), Num(6), Num(20), Num(36)},
      freq     : {Missing},
      rx       : {Missing},
      tx       : {Missing, Bad, Num(72)},
      noise    : {Missing, Bad, Num(-95)},
      quality  : {Missing},
      iwconfig : {FALSE} ]

InitRead ==
    /\ \/ platform = "windows" /\ raw \in WindowsOutputs
       \/ platform = "linux" /\ raw \in LinuxOutputs
       \/ platform = "darwin" /\ raw \in MacosOutputs
       \/ platform = "freebsd" /\ raw = [NoRaw EXCEPT !.link = TRUE]
    /\ reading = None
    /\ rawChannel = None
    /\ rawFrequency = None
    /\ info = None
    /\ back = None
    /\ cfg = Config("medium", FALSE, FALSE, FALSE, FALSE)
    /\ count = None
    /\ pc = "main"
    /\ MeterIdle /\ ThreadIdle /\ ObsIdle /\ RateIdle

NextRead == scan

SpecRead == InitRead /\ [][NextRead]_vars

\* One call of measure_latency within run_full_test: each of the five
\* connection attempts fails or takes 9, 10 or 12 ms, and the flag may be set
\* at any point.
LatencyOutcomes ==
    [ wlan  |-> {None},
      lat   |-> {None, Some(9), Some(10), Some(12)},
      open  |-> {FALSE},
      read  |-> {"error"},
      bytes |-> {1},
      dur   |-> {0},
      up    |-> {None} ]

NextLatency ==
    \/ rft_begin
    \/ latency_attempt(LatencyOutcomes)
    \/ latency_finish
    \/ stop

SpecLatency == InitProbe /\ [][NextLatency]_vars

\* run called on a meter whose prober may have been stopped before (by the
\* finally block of an earlier run, or by stop itself), and may be stopped
\* at any point of the run.
InitRerun ==
    /\ cfg \in {Config("medium", s, w, o, FALSE) : s, w, o \in BOOLEAN}
    /\ count \in {None} \cup {Some(n) : n \in 1..MaxCount}
    /\ pc = "main"
    /\ running = FALSE
    /\ stop_flag \in BOOLEAN
    /\ measurements = << >>
    /\ sleeps = 0
    /\ cancelled = FALSE
    /\ late_cycle = FALSE
    /\ stop_at = IF stop_flag THEN "before_run" ELSE "never"
    /\ dl_log = << >>
    /\ ul_log = << >>
    /\ calls = NoCalls
    /\ ThreadIdle /\ ScanIdle /\ RateIdle
    /\ ReadIdle

NextRerun ==
    \/ MainThread
    \/ stop

SpecRerun == InitRerun /\ [][NextRerun]_vars

\* ------------------------------------------------------------------ properties

\* An endpoint attempt that returned a speed.
Succeeded(log) == {i \in DOMAIN log : log[i].outcome = "ok"}

\* C1: in every SpeedTestResult returned by run_full_test, whatever the
\* latency, download and upload outcomes and whenever the stop flag is
\* set, success is true iff a download speed was computed (download_mbps
\* present and bytes_downloaded > 0) -- so a failed upload or latency
\* alone never makes it false -- and error is present iff success is
\* false.
C1_SuccessIffDownload ==
    pc = "rs_return" /\ IsSome(speed) =>
        LET r == Val(speed)
        IN  /\ r.success <=> Succeeded(dl_log) # {}
            /\ r.success <=> (IsSome(r.download_mbps) /\ r.bytes_downloaded > 0)
            /\ IsSome(r.error) <=> ~r.success

\* C1 witness: a result with a download but neither an upload (every
\* upload endpoint was tried and failed) nor a latency; the download is so
\* slow that it rounds to 0.0 Mbit/s.
C1_Witness ==
    /\ pc = "rs_return"
    /\ IsSome(speed)
    /\ Val(speed).success
    /\ Val(speed).download_mbps = Some(0)
    /\ Val(speed).upload_mbps = None
    /\ Len(ul_log) = Len(UPLOAD_TEST_URLS)
    /\ Val(speed).ping_ms = None
    /\ Val(speed).error = None

\* C2: measure_download tries the URLs of the size class strictly in list
\* order and the first success wins: the speed and byte count returned
\* come from the first endpoint that delivers at least 1 byte in positive
\* elapsed time, no endpoint after it is attempted, every endpoint before
\* it was attempted and failed, and when every endpoint fails (or the flag
\* stops the loop) the result is (None, 0).
C2_FirstSuccessWins ==
    pc = "upload_check" =>
        LET urls == DownloadUrls(cfg.test_size)
            n == Len(dl_log)
        IN  /\ n <= Len(urls)
            /\ \A i \in 1..n : dl_log[i].url = urls[i]
            /\ \A i \in Succeeded(dl_log) : i = n
            /\ IF Succeeded(dl_log) # {}
               THEN /\ dl_log[n].bytes >= 1
                    /\ dl_log[n].dur > 0
                    /\ download_mbps = Some(<< dl_log[n].bytes * 8, dl_log[n].dur >>)
                    /\ bytes_down = dl_log[n].bytes
               ELSE /\ download_mbps = None
                    /\ bytes_down = 0
            /\ (~stop_flag /\ Succeeded(dl_log) = {}) => n = Len(urls)

\* C2 witness: the first endpoint fails, the second delivers 10,000,000
\* bytes in 1.0 s, and 80.0 Mbit/s is returned.
C2_Witness ==
    /\ pc = "upload_check"
    /\ Len(dl_log) = 2
    /\ dl_log[1].outcome = "error"
    /\ dl_log[2].outcome = "ok"
    /\ dl_log[2].url = "http://proof.ovh.net/files/10Mb.dat"
    /\ bytes_down = 10000000
    /\ RoundOrNone(download_mbps) = Some(8000)

\* C3: for every count N >= 1 and with no cancellation, run performs
\* exactly N cycles whatever their outcome, appends exactly N results in
\* cycle order, sleeps exactly N - 1 times, none after the Nth cycle, and
\* then terminates.
C3_Counts ==
    ~cancelled /\ Truthy(count) =>
        /\ iteration <= Val(count)
        /\ Len(measurements) <= iteration
        /\ \A i \in DOMAIN measurements : measurements[i].timestamp = i
        /\ sleeps = (IF iteration = 0 THEN 0
                     ELSE IF pc \in {"while", "finally", "done"}
                             /\ iteration < Val(count)
                     THEN iteration
                     ELSE iteration - 1)
        /\ pc = "done" =>
              /\ iteration = Val(count)
              /\ Len(measurements) = Val(count)
              /\ sleeps = Val(count) - 1

C3_ExactlyNCycles == [] C3_Counts /\ (Truthy(count) ~> (pc = "done"))

\* C3 witness: count = 2 has ended with two results, the first with no
\* wireless reading and a failed probe, after one sleep.
C3_Witness ==
    /\ pc = "done"
    /\ ~cancelled
    /\ count = Some(2)
    /\ Len(measurements) = 2
    /\ measurements[1].wlan = None
    /\ IsSome(measurements[1].speed)
    /\ ~Val(measurements[1].speed).success
    /\ sleeps = 1

\* C4: a cancellation request delivered at any point after the handler is
\* installed makes the run loop reach its terminal state, and no new cycle
\* begins after the request.
C4_NoCycleAfterCancel == ~late_cycle

\* C5 as stated: when the flag is set at a phase boundary of
\* run_full_test, the remaining phases are skipped without an endpoint
\* attempt, the values already measured are kept, and error is absent.
C5_Skipped ==
    /\ stop_at = "latency_download" => dl_log = << >>
    /\ ul_log = << >>

C5_Kept ==
    /\ Val(speed).ping_ms = ping_ms
    /\ Val(speed).jitter_ms = jitter_ms
    /\ Val(speed).download_mbps = RoundOrNone(download_mbps)
    /\ Val(speed).bytes_downloaded = bytes_down
    /\ stop_at = "download_upload" =>
          (Succeeded(dl_log) # {} <=> IsSome(Val(speed).download_mbps))

C5_BoundaryCancelNoError ==
    pc = "rs_return" /\ stop_at \in {"latency_download", "download_upload"} =>
        /\ C5_Skipped
        /\ C5_Kept
        /\ Val(speed).error = None

\* C5 as amended: when the flag is set at a phase boundary of
\* run_full_test, the remaining phases are skipped without an endpoint
\* attempt and the values already measured are kept; error is absent
\* exactly when a download speed had been measured, so it is present
\* whenever the flag is set before the download phase.
C5_BoundaryCancelPartial ==
    pc = "rs_return" /\ stop_at \in {"latency_download", "download_upload"} =>
        /\ C5_Skipped
        /\ C5_Kept
        /\ Val(speed).error = None <=> Succeeded(dl_log) # {}
        /\ stop_at = "latency_download" =>
              /\ ~Val(speed).success
              /\ IsSome(Val(speed).error)

\* C5 witness: the flag was set between latency and download; the result
\* keeps the ping, has no download and carries the error.
C5_Witness ==
    /\ pc = "rs_return"
    /\ stop_at = "latency_download"
    /\ IsSome(Val(speed).ping_ms)
    /\ dl_log = << >>
    /\ IsSome(Val(speed).error)

\* The values of a list of Optionals that are present, in order.
RECURSIVE Present(_)
Present(s) ==
    IF s = << >> THEN << >>
    ELSE (IF IsSome(s[1]) THEN << Val(s[1]) >> ELSE << >>) \o Present(Tail(s))

PresentSignals ==
    LET HasWlan(m) == IsSome(m.wlan)
        ws == SelectSeq(measurements, HasWlan)
    IN  Present([i \in 1..Len(ws) |-> Val(ws[i].wlan).signal_strength_dbm])

SuccessfulProbes ==
    LET Ok(m) == IsSome(m.speed) /\ Val(m.speed).success
    IN  SelectSeq(measurements, Ok)

PresentDownloads ==
    Present([i \in 1..Len(SuccessfulProbes) |->
                Val(SuccessfulProbes[i].speed).download_mbps])

PresentUploads ==
    Present([i \in 1..Len(SuccessfulProbes) |->
                Val(SuccessfulProbes[i].speed).upload_mbps])

StatsOver(vals) == IF vals = << >> THEN None ELSE Some(StatsOf(vals))

\* C6: at the terminal state the summary's wireless min/max/mean are over
\* all present signal_strength_dbm values of the accumulated results, and
\* the download and upload min/max/mean over all present download_mbps,
\* respectively upload_mbps, of the results whose probe succeeded; no
\* present value, a 0 included, is left out.
C6_SummaryOverAllPresent ==
    pc = "done" /\ summary.printed =>
        /\ summary.wlan = StatsOver(PresentSignals)
        /\ summary.download = StatsOver(PresentDownloads)
        /\ summary.upload = StatsOver(PresentUploads)

\* C7: for every accumulated sequence, the empty one and those with no
\* wireless reading or no successful probe included, computing the summary
\* never divides by zero and never takes min/max of an empty list: a
\* group with no values is reported as having no data.
C7_SummaryNeverFails ==
    pc = "done" =>
        /\ \A g \in {summary.wlan, summary.download, summary.upload} :
              IsSome(g) => ~Val(g).err /\ Val(g).n > 0
        /\ PresentSignals = << >> => summary.wlan = None
        /\ PresentDownloads = << >> => summary.download = None
        /\ PresentUploads = << >> => summary.upload = None

\* C7 witness: a summary was printed for results with a wireless reading
\* without a signal and a failed probe only: every group has no data.
C7_Witness ==
    /\ pc = "done"
    /\ summary.printed
    /\ \E i \in DOMAIN measurements :
          /\ IsSome(measurements[i].wlan)
          /\ IsSome(measurements[i].speed)
    /\ PresentSignals = << >>
    /\ SuccessfulProbes = << >>
    /\ summary.wlan = None
    /\ summary.download = None
    /\ summary.upload = None

\* The rating table of the quality model.
RatingTable(d) ==
    IF d >= -50 THEN << "Excellent", 100 >>
    ELSE IF -60 <= d /\ d < -50 THEN << "Very Good", 80 >>
    ELSE IF -67 <= d /\ d < -60 THEN << "Good", 60 >>
    ELSE IF -70 <= d /\ d < -67 THEN << "Fair", 40 >>
    ELSE IF -80 <= d /\ d < -70 THEN << "Weak", 20 >>
    ELSE << "Poor", 10 >>

\* C8: get_quality_rating is total over an optional integer dBm: absent
\* gives (Unknown, 0), a present value the pair of the table; the score
\* is within 0..100 and non-decreasing in dBm.
C8_RatingTable ==
    IsSome(rating) =>
        /\ dbm_in = None => Val(rating) = << "Unknown", 0 >>
        /\ IsSome(dbm_in) =>
              /\ Val(rating) = RatingTable(Val(dbm_in))
              /\ \A d \in (-MaxAttenuation)..Val(dbm_in) :
                    get_quality_rating(Some(d))[2] <= Val(rating)[2]
        /\ Val(rating)[2] \in 0..100

\* C8 witness: the boundary -50 dBm has been rated.
C8_Witness ==
    /\ dbm_in = Some(-50)
    /\ rating = Some(<< "Excellent", 100 >>)

\* C9: on the Windows and macOS paths, for every reported integer channel
\* c: c <= 14 gives 2412 + (c-1)*5, c >= 36 gives 5180 + (c-36)*5, and c
\* in 15..35 leaves the frequency absent; the band is 2.4GHz below 3000,
\* 5GHz below 6000 and 6GHz otherwise.
C9_ChannelToFrequency ==
    platform \in {"windows", "darwin"} /\ IsSome(info) /\ IsSome(rawChannel) =>
        LET c == Val(rawChannel)
            f == Val(info).frequency_mhz
        IN  /\ c <= 14 => f = Some(2412 + (c - 1) * 5)
            /\ c >= 36 => f = Some(5180 + (c - 36) * 5)
            /\ c \in 15..35 => f = None
            /\ IsSome(f) =>
                  Val(info).band = (IF Val(f) < 3000 THEN Some("2.4GHz")
                                    ELSE IF Val(f) < 6000 THEN Some("5GHz")
                                    ELSE Some("6GHz"))
            /\ f = None => Val(info).band = None

OnGrid(f) ==
    \/ \E c \in 1..14 : f = 2412 + (c - 1) * 5
    \/ \E c \in 36..MaxChannel : f = 5180 + (c - 36) * 5

\* C10: the conversions round-trip on the grids: for every channel c in
\* 1..14 and every c >= 36, frequency-to-channel of channel-to-frequency
\* of c is c, and for every frequency f on the grids
\* channel-to-frequency of frequency-to-channel of f is f.
C10_RoundTrip ==
    IsSome(back) =>
        /\ ( /\ platform \in {"windows", "darwin"}
             /\ IsSome(rawChannel)
             /\ Val(rawChannel) \in (1..14) \cup (36..MaxChannel) )
           => Val(back).channel = rawChannel
        /\ ( /\ platform = "linux"
             /\ IsSome(rawFrequency)
             /\ OnGrid(Val(rawFrequency)) )
           => Val(back).frequency_mhz = rawFrequency

\* C10 witness: channel 6 gave 2437 MHz, which gave channel 6 back.
C10_Witness ==
    /\ platform = "windows"
    /\ rawChannel = Some(6)
    /\ IsSome(info)
    /\ Val(info).frequency_mhz = Some(2437)
    /\ IsSome(back)
    /\ Val(back).channel = Some(6)

\* A reading that get_wlan_info has returned.
Returned == IsSome(reading) /\ IsSome(Val(reading))

TheReading == Val(Val(reading))

\* C11: on the Windows path a reported quality percent p in 0..100 gives
\* the signal strength -100 + p div 2 (integer division), so that 100
\* gives -50 and 0 gives -100.
C11_PercentToDbm ==
    (platform = "windows" /\ Returned /\ IsNum(raw.signal)
       /\ raw.signal[2] \in 0..100)
    => TheReading.signal_strength_dbm
          = Some(-100 + (raw.signal[2] \div 2))

\* Frequency to band: below 3000 MHz, below 6000 MHz, otherwise.
BandOf(f) ==
    IF f < 3000 THEN "2.4GHz" ELSE IF f < 6000 THEN "5GHz" ELSE "6GHz"

\* The tool reported a quality percent itself.
QualityReported ==
    \/ platform = "windows" /\ IsNum(raw.signal)
    \/ /\ platform = "linux"
       /\ raw.iwconfig
       /\ raw.quality[1] = "ratio"
       /\ raw.quality[3] > 0

C12_Band ==
    /\ IsSome(TheReading.band) <=> IsSome(TheReading.frequency_mhz)
    /\ IsSome(TheReading.frequency_mhz)
         => TheReading.band = Some(BandOf(Val(TheReading.frequency_mhz)))

C12_Snr ==
    /\ IsSome(TheReading.snr_db)
         <=> (IsSome(TheReading.signal_strength_dbm)
                /\ IsSome(TheReading.noise_dbm))
    /\ IsSome(TheReading.snr_db)
         => Val(TheReading.snr_db)
               = Val(TheReading.signal_strength_dbm) - Val(TheReading.noise_dbm)

C12_Quality ==
    (~QualityReported /\ IsSome(TheReading.signal_strength_dbm))
    => TheReading.signal_quality_pct
          = Some(Clamp100(2 * (Val(TheReading.signal_strength_dbm) + 100)))

\* C12: every WLANInfo of every platform path is consistent: band is
\* present iff frequency is and is the band of that frequency; snr_db is
\* present iff signal and noise are and is their difference; a quality
\* percent not reported but derivable from dBm is clamp(2*(dBm+100), 0, 100).
C12_Consistent == Returned => (C12_Band /\ C12_Snr /\ C12_Quality)

\* The optional numeric fields of a platform's output, and the fields of
\* the reading that come from each of them alone.
C13_Targets ==
    IF platform = "windows"
    THEN [ signal  |-> {"signal_quality_pct", "signal_strength_dbm"},
           channel |-> {"channel", "frequency_mhz", "band"},
           rx      |-> {"rx_rate_mbps", "link_speed_mbps"},
           tx      |-> {"tx_rate_mbps"} ]
    ELSE IF platform = "linux"
    THEN [ freq    |-> {"frequency_mhz", "channel", "band"},
           signal  |-> {"signal_strength_dbm", "snr_db"},
           noise   |-> {"noise_dbm", "snr_db"},
           tx      |-> {"tx_rate_mbps", "link_speed_mbps"} ]
    ELSE [ channel |-> {"channel", "frequency_mhz", "band"},
           signal  |-> {"signal_strength_dbm", "signal_quality_pct", "snr_db"},
           noise   |-> {"noise_dbm", "snr_db"},
           tx      |-> {"tx_rate_mbps", "link_speed_mbps"} ]

C13_Fields ==
    {"channel", "frequency_mhz", "signal_strength_dbm", "signal_quality_pct",
     "link_speed_mbps", "tx_rate_mbps", "rx_rate_mbps", "noise_dbm", "snr_db",
     "band"}

C13_Unusable(f) == raw[f] \in {Missing, Bad, Dotted}

\* C13: when the link is identified and an optional field is missing or is
\* no number, the scanner still returns a reading, the field and what is
\* derived from it alone are absent, and the other fields are those of the
\* same output without the field.
C13_BadFieldAbsent ==
    (platform \in {"windows", "linux", "darwin"} /\ IsSome(reading)
       /\ raw.link)
    => \A f \in DOMAIN C13_Targets :
          C13_Unusable(f)
          => /\ IsSome(Val(reading))
             /\ \A g \in C13_Targets[f] : TheReading[g] = None
             /\ LET without == get_wlan_info(platform,
                                             [raw EXCEPT ![f] = Missing])
                IN  IsSome(without)
                    => \A g \in C13_Fields \ C13_Targets[f] :
                          TheReading[g] = Val(without)[g]

\* C14: in every CombinedResult that run_single returns, the prober was
\* called, and the throughput sub-result is present (failed or cancelled
\* probes included), iff wlan_only is not set; the scanner was called iff
\* speed_only is not set, and with speed_only the wireless sub-result is
\* absent; both sub-results are what the calls returned, and no
\* sub-component is called more than once in a cycle.
C14_PresenceByMode ==
    /\ calls.scanner <= 1
    /\ calls.prober <= 1
    /\ pc = "rs_return"
         => /\ calls.prober = (IF cfg.wlan_only THEN 0 ELSE 1)
            /\ IsSome(speed) <=> ~cfg.wlan_only
            /\ calls.scanner = (IF cfg.speed_only THEN 0 ELSE 1)
            /\ cfg.speed_only => wlan = None
            /\ wlan = calls.wlan
            /\ speed = calls.speed

\* A cycle in both modes whose scanner gave no reading and whose probe was
\* cancelled: the throughput sub-result is there, and failed.
C14_Witness ==
    /\ pc = "rs_return"
    /\ ~cfg.wlan_only /\ ~cfg.speed_only
    /\ cancelled
    /\ calls.scanner = 1 /\ wlan = None
    /\ calls.prober = 1 /\ IsSome(speed) /\ ~Val(speed).success

\* The sum of the absolute differences of neighbours in a sequence.
RECURSIVE C15_DiffSum(_)
C15_DiffSum(s) ==
    IF Len(s) < 2 THEN 0 ELSE Abs(s[2] - s[1]) + C15_DiffSum(Tail(s))

\* The average of the samples, in hundredths of a millisecond.
C15_Ping(s) ==
    IF s = << >> THEN None ELSE Some(Round2(SeqSum(s), Len(s)))

\* The mean step between samples that follow each other, in hundredths.
C15_Jitter(s) ==
    IF s = << >> THEN None
    ELSE IF Len(s) = 1 THEN Some(0)
    ELSE Some(Round2(C15_DiffSum(s), Len(s) - 1))

\* C15: measure_latency takes its samples one at a time, a failed attempt
\* adding nothing and a successful one adding its sample at the end; on
\* return ping is the average of the k successful samples, jitter the mean
\* absolute difference of samples that follow each other in the order taken
\* (0 when k = 1), and both are absent iff k = 0.
C15_LatencyResult ==
    [][ /\ (pc = "latency" /\ pc' = "latency")
           => \/ latencies' = latencies
              \/ /\ Len(latencies') = Len(latencies) + 1
                 /\ SubSeq(latencies', 1, Len(latencies)) = latencies
        /\ (pc = "latency" /\ pc' = "download")
           => /\ ping_ms' = C15_Ping(latencies)
              /\ jitter_ms' = C15_Jitter(latencies)
              /\ (ping_ms' = None) <=> (latencies = << >>)
              /\ (jitter_ms' = None) <=> (latencies = << >>)
              /\ Len(latencies) = 1 => jitter_ms' = Some(0) ]_vars

\* The samples 10, 12, 9 with failed attempts among them: ping 10.33 and
\* jitter 2.5.
C15_Witness ==
    /\ pc = "download"
    /\ ping_ms = Some(1033)
    /\ jitter_ms = Some(250)

\* C16: for every iteration count given to run (absent, 0 or positive), a
\* cycle that follows another begins only after exactly one sleep since the
\* end of the one before: the n-th cycle begins after n - 1 sleeps.
C16_SleepBetweenCycles ==
    pc = "run_single" => sleeps = iteration - 1

\* The host of a download endpoint.
C17_Host(url) ==
    IF \E z \in DOMAIN SPEED_TEST_URLS : SPEED_TEST_URLS[z][1] = url
    THEN "speedtest.tele2.net"
    ELSE "proof.ovh.net"

\* C17: test_server of a SpeedTestResult names the endpoint whose transfer
\* gave the reported download speed, and is absent when every download
\* endpoint failed.
C17_TestServerIsChosen ==
    (pc = "rs_return" /\ IsSome(speed))
    => IF Succeeded(dl_log) = {}
       THEN Val(speed).test_server = None
       ELSE \A i \in Succeeded(dl_log) :
               Val(speed).test_server = Some(C17_Host(dl_log[i].url))

\* A step that opens a connection: a latency sample, urlopen of a download
\* endpoint, an upload request.
C18_Opens ==
    \/ pc = "latency" /\ lat_i' = lat_i + 1
    \/ pc = "download" /\ (pc' = "dl_read" \/ Len(dl_log') > Len(dl_log))
    \/ pc = "upload" /\ Len(ul_log') > Len(ul_log)

\* C18: nothing clears the stop flag once it is set, no step taken with the
\* flag set opens a connection, and every run_full_test called with the
\* flag set, in any cycle of a run, returns success = false with ping,
\* jitter, download and upload absent and no bytes counted.
C18_StopFlagMonotonic ==
    /\ [][ /\ stop_flag => stop_flag'
           /\ stop_flag => ~C18_Opens ]_vars
    /\ []( (pc = "rs_return" /\ IsSome(speed) /\ calls.stopped)
           => /\ ~Val(speed).success
              /\ Val(speed).ping_ms = None
              /\ Val(speed).jitter_ms = None
              /\ Val(speed).download_mbps = None
              /\ Val(speed).upload_mbps = None
              /\ Val(speed).bytes_downloaded = 0
              /\ Val(speed).bytes_uploaded = 0
              /\ dl_log = << >>
              /\ ul_log = << >> )

\* The second cycle of a run on a stopped prober returned its failed result.
C18_Witness ==
    /\ pc = "rs_return"
    /\ iteration = 2
    /\ stop_at = "before_run"
    /\ calls.stopped
    /\ IsSome(speed) /\ ~Val(speed).success

====
